---- MODULE Spec2Model ----
(***************************************************************************)
(* State-machine model of the front end of the car price estimation        *)
(* application:                                                            *)
(*   - the cascading selector controller in its three implementations      *)
(*     (car-price-estimator.js, car-assessment.js, the brand-rooted        *)
(*     estimator variant), with the estimator's form validator and         *)
(*     delayed submit;                                                     *)
(*   - the Alpine dataTable component (load, filter, sort);                *)
(*   - the Alpine modal component.                                         *)
(* One step of the model is one run-to-completion stretch of the event     *)
(* loop: an event handler up to its first await, or the continuation of    *)
(* an awaited fetch.                                                       *)
(***************************************************************************)
EXTENDS Integers, Sequences, FiniteSets, Bags, TLC

VARIABLES
    impl,        \* which page script is loaded
    cap,         \* how many option fetches this specification lets overlap
    lists,       \* the option lists the endpoints of this specification answer with
    sel,         \* the <select> elements: level -> [dis, content, opts, src, val]
    inflight,    \* option fetches awaiting their response
    radios,      \* required radio groups that have a checked input
    btnDisabled, \* submitBtn.disabled
    timers,      \* pending setTimeout callbacks of submitForm
    page,        \* "live", or "submitted" once form.submit() has navigated away
    last,        \* what the most recent step did (observer for the properties)
    \* the dataTable component
    serverSide,    \* config.serverSide
    data,          \* this.data, when it is an array
    dataIterable,  \* FALSE when this.data holds a response that is no array
    filteredData,
    loading,
    error,         \* "null" or the message
    currentPage,
    totalPages,
    totalRecords,
    sortField,     \* "null" or a field name
    sortDirection,
    search,
    filters,
    loads,         \* the loadData calls awaiting their response, by slot
    afterInit,     \* init() resumes after its awaited loadData
    dtLast,        \* what the most recent table step did (observer)
    \* the modal components of the page
    modals,        \* instance -> [show, title, content]
    bodyLocked,    \* document.body has the class overflow-hidden
    mdLast,        \* what the most recent modal step did (observer)
    \* the form component
    formData,      \* this.data
    formErrors,    \* this.errors: the fields it has messages for
    formLoading,   \* this.loading
    submits,       \* submit() calls awaiting their response
    fmLast         \* what the most recent form step did (observer)

selVars == <<impl, cap, lists, sel, inflight, radios, btnDisabled, timers, page, last>>

dtVars == <<serverSide, data, dataIterable, filteredData, loading, error, currentPage,
            totalPages, totalRecords, sortField, sortDirection, search, filters, loads,
            afterInit, dtLast>>

mdVars == <<modals, bodyLocked, mdLast>>

fmVars == <<formData, formErrors, formLoading, submits, fmLast>>

----------------------------------------------------------------------------
(* Bounds of the model *)

\* option fetches that may be awaiting a response at once
MaxInFlight == 2
\* the same, in the specification of the estimator's form
MaxFormInFlight == 1
\* required radio groups on the page (the estimator lists 11; the variant reads them from the DOM)
NumGroups == 2
\* submit timers that may be pending at once
MaxTimers == 2

\* option values a response may carry
Values == {"a", "b"}
OptionSets == {Values}
\* the same, an endpoint answering with a list of one entry among them
ShortLists == {{"a"}, Values}

Impls == {"estimator", "assessment", "variant"}

\* category, brand, model, variant, year
Levels == 1..5
Groups == 1..NumGroups

\* the brand-rooted variant has no category select: brand is its top level
Top(im) == IF im = "variant" THEN 2 ELSE 1
LevelsOf(im) == Top(im)..5

----------------------------------------------------------------------------
(* The selects *)

\* select.innerHTML = placeholder; select.disabled = true, for every id
resetSelects(s, ids) ==
    [i \in Levels |->
        IF i \in ids
        THEN [dis |-> TRUE, content |-> "placeholder", opts |-> {}, src |-> "", val |-> ""]
        ELSE s[i]]

\* selectElement.innerHTML = Loading...; selectElement.disabled = true
showLoading(s, t) ==
    [s EXCEPT ![t] = [dis |-> TRUE, content |-> "loading", opts |-> {}, src |-> "", val |-> ""]]

\* innerHTML = placeholder, then one option per fetched entry; the placeholder
\* stays the selected option, so the value is empty
setOptions(s, t, o, p) ==
    [s EXCEPT ![t] = [dis |-> @.dis, content |-> "options", opts |-> o, src |-> p[Len(p)], val |-> ""]]

\* innerHTML = placeholder alone: the statement before the forEach over the response
setPlaceholder(s, t) ==
    [s EXCEPT ![t] = [dis |-> @.dis, content |-> "placeholder", opts |-> {}, src |-> "", val |-> ""]]

\* enable left out
enableSkipped(s, t) == s

\* select.disabled = false
enable(s, t) == [s EXCEPT ![t].dis = FALSE]

\* isValid of validateForm: every select of the page non-empty, every required group checked
isValid(im, s, r) ==
    /\ \A i \in LevelsOf(im) : s[i].val # ""
    /\ \A g \in Groups : g \in r

\* submitBtn.disabled = !isValid
validateForm(im, s, r) == ~isValid(im, s, r)

\* validateFormBeforeSubmit: the same test, made in the submit handler
validateFormBeforeSubmit(im, s, r) ==
    /\ \A i \in LevelsOf(im) : s[i].val # ""
    /\ \A g \in Groups : g \in r

\* the field the message of validateFormBeforeSubmit names: the message for an
\* empty select is one fixed sentence that names no select; the message for
\* a radio group names the first group without a checked input
NoField == [kind |-> "none", id |-> 0]
errorField(im, s, r) ==
    IF \E i \in LevelsOf(im) : s[i].val = ""
    THEN NoField
    ELSE [kind |-> "group", id |-> CHOOSE g \in Groups \ r : \A h \in Groups \ r : g <= h]

\* the query parameters the handler of level i sends for value v
paramsOf(s, i, v) ==
    CASE i = 1 -> <<v>>
      [] i = 2 -> <<v>>
      [] i = 3 -> <<s[2].val, v>>
      [] i = 4 -> <<s[2].val, s[3].val, v>>
      [] OTHER -> <<>>

\* the condition of the handler's if: the values it read are all non-empty
hasAll(s, i, v) ==
    CASE i = 1 -> v # ""
      [] i = 2 -> v # ""
      [] i = 3 -> s[2].val # "" /\ v # ""
      [] i = 4 -> s[2].val # "" /\ s[3].val # "" /\ v # ""
      [] OTHER -> FALSE

\* what the step did: the listener and its level, whether showError ran; for
\* a response, the options it carried and whether it overwrote options
\* fetched for the current value with options fetched for a value the level
\* no longer holds; for a blocked submit, the field the message names
Stamp(op, lvl, note) ==
    [op |-> op, level |-> lvl, notified |-> note, overNewer |-> FALSE, named |-> NoField,
     fetched |-> {}]

\* the response r is for values the levels above its target no longer hold,
\* and the target shows the options fetched for the values they hold now
overwritesNewer(s, r) ==
    LET t == r.target IN
    /\ r.params # paramsOf(s, t - 1, s[t - 1].val)
    /\ ~s[t].dis
    /\ s[t].content = "options"
    /\ s[t].src = s[t - 1].val

----------------------------------------------------------------------------
(* Initial state: the page as served, the top level's options being fetched *)

SelInit(impls, c, ls) ==
    /\ impl \in impls
    /\ cap = c
    /\ lists = ls
    /\ sel = [i \in Levels |->
                [dis |-> (i > 1), content |-> "placeholder", opts |-> {}, src |-> "", val |-> ""]]
    /\ inflight = SetToBag({[target |-> Top(impl), params |-> <<>>]})
    /\ radios = {}
    /\ btnDisabled = TRUE
    /\ timers = 0
    /\ page = "live"
    /\ last = Stamp("init", 0, FALSE)

----------------------------------------------------------------------------
(* loadCategories / loadBrands: the fetch issued on DOMContentLoaded *)

loadTopOk ==
    \E r \in BagToSet(inflight), o \in lists :
        /\ page = "live"
        /\ r.params = <<>>
        /\ sel' = IF impl = "variant"
                  THEN enable(setOptions(sel, r.target, o, <<"">>), r.target)
                  ELSE setOptions(sel, r.target, o, <<"">>)
        /\ inflight' = inflight (-) SetToBag({r})
        /\ last' = Stamp("loadTopOk", 0, FALSE)
        /\ UNCHANGED <<fmVars, mdVars, dtVars, impl, cap, lists, radios, btnDisabled, timers, page>>

loadTopFail ==
    \E r \in BagToSet(inflight) :
        /\ page = "live"
        /\ r.params = <<>>
        /\ inflight' = inflight (-) SetToBag({r})
        /\ last' = Stamp("loadTopFail", 0, impl # "assessment")
        /\ UNCHANGED <<fmVars, mdVars, dtVars, impl, cap, lists, sel, radios, btnDisabled, timers, page>>

----------------------------------------------------------------------------
(* The change listeners of car-price-estimator.js and of its brand-rooted     *)
(* variant. The browser has already set the select's value to v when the      *)
(* listener runs. The placeholder option is disabled, so a user picks one of  *)
(* the fetched options; the change event fires only when the value differs.   *)

\* changeFetch aborting the fetches still pending for the same target
changeFetchAborting(i, v) ==
    LET s0 == [sel EXCEPT ![i].val = v]
        kept == {f \in BagToSet(inflight) : f.target # i + 1}
    IN
    /\ hasAll(s0, i, v)
    /\ BagCardinality(inflight) < cap
    /\ sel' = showLoading(s0, i + 1)
    /\ inflight' = [f \in kept |-> inflight[f]]
                       (+) SetToBag({[target |-> i + 1, params |-> paramsOf(s0, i, v)]})
    /\ last' = Stamp("changeFetch", i, FALSE)
    /\ UNCHANGED <<fmVars, mdVars, dtVars, impl, cap, lists, radios, btnDisabled, timers, page>>

\* listener up to its await: showLoading(target), then the fetch is issued
changeFetch(i, v) ==
    LET s0 == [sel EXCEPT ![i].val = v] IN
    /\ hasAll(s0, i, v)
    /\ BagCardinality(inflight) < cap
    /\ sel' = showLoading(s0, i + 1)
    /\ inflight' = inflight (+) SetToBag({[target |-> i + 1, params |-> paramsOf(s0, i, v)]})
    /\ last' = Stamp("changeFetch", i, FALSE)
    /\ UNCHANGED <<fmVars, mdVars, dtVars, impl, cap, lists, radios, btnDisabled, timers, page>>

\* listener's else branch: resetSelects(lower levels); validateForm()
changeReset(i, v) ==
    LET s0 == [sel EXCEPT ![i].val = v] IN
    /\ ~hasAll(s0, i, v)
    /\ sel' = resetSelects(s0, (i + 1)..5)
    /\ btnDisabled' = validateForm(impl, sel', radios)
    /\ last' = Stamp("changeReset", i, FALSE)
    /\ UNCHANGED <<fmVars, mdVars, dtVars, impl, cap, lists, inflight, radios, timers, page>>

\* yearSelect's listener is validateForm itself
changeYear(v) ==
    /\ sel' = [sel EXCEPT ![5].val = v]
    /\ btnDisabled' = validateForm(impl, sel', radios)
    /\ last' = Stamp("changeYear", 5, FALSE)
    /\ UNCHANGED <<fmVars, mdVars, dtVars, impl, cap, lists, inflight, radios, timers, page>>

userChange ==
    \E i \in LevelsOf(impl) : \E v \in sel[i].opts :
        /\ page = "live"
        /\ impl # "assessment"
        /\ ~sel[i].dis
        /\ v # sel[i].val
        /\ IF i = 5 THEN changeYear(v) ELSE (changeFetch(i, v) \/ changeReset(i, v))

\* continuation after await response.json(): the response is an array
fetchOk ==
    \E r \in BagToSet(inflight), o \in lists :
        LET t == r.target IN
        /\ page = "live"
        /\ impl # "assessment"
        /\ r.params # <<>>
        /\ sel' = resetSelects(enable(setOptions(sel, t, o, r.params), t), (t + 1)..5)
        /\ btnDisabled' = validateForm(impl, sel', radios)
        /\ inflight' = inflight (-) SetToBag({r})
        /\ last' = [Stamp("fetchOk", t - 1, FALSE) EXCEPT !.overNewer = overwritesNewer(sel, r),
                                                          !.fetched = o]
        /\ UNCHANGED <<fmVars, mdVars, dtVars, impl, cap, lists, radios, timers, page>>

\* fetch() or response.json() rejects: the catch block logs and calls showError
fetchReject ==
    \E r \in BagToSet(inflight) :
        /\ page = "live"
        /\ impl # "assessment"
        /\ r.params # <<>>
        /\ inflight' = inflight (-) SetToBag({r})
        /\ last' = Stamp("fetchReject", r.target - 1, TRUE)
        /\ UNCHANGED <<fmVars, mdVars, dtVars, impl, cap, lists, sel, radios, btnDisabled, timers, page>>

\* the response parses to something that is no array (an error body): innerHTML
\* is set to the placeholder, then forEach throws into the catch block
fetchNotArray ==
    \E r \in BagToSet(inflight) :
        /\ page = "live"
        /\ impl # "assessment"
        /\ r.params # <<>>
        /\ sel' = setPlaceholder(sel, r.target)
        /\ inflight' = inflight (-) SetToBag({r})
        /\ last' = Stamp("fetchNotArray", r.target - 1, TRUE)
        /\ UNCHANGED <<fmVars, mdVars, dtVars, impl, cap, lists, radios, btnDisabled, timers, page>>

----------------------------------------------------------------------------
(* The change listeners of car-assessment.js: no showLoading, no           *)
(* validateForm, no showError; the placeholder option can be chosen; the   *)
(* year select has no listener.                                            *)

assessFetch(i, v) ==
    LET s0 == [sel EXCEPT ![i].val = v] IN
    /\ hasAll(s0, i, v)
    /\ BagCardinality(inflight) < cap
    /\ sel' = s0
    /\ inflight' = inflight (+) SetToBag({[target |-> i + 1, params |-> paramsOf(s0, i, v)]})
    /\ last' = Stamp("changeFetch", i, FALSE)
    /\ UNCHANGED <<fmVars, mdVars, dtVars, impl, cap, lists, radios, btnDisabled, timers, page>>

assessReset(i, v) ==
    LET s0 == [sel EXCEPT ![i].val = v] IN
    /\ ~hasAll(s0, i, v)
    /\ sel' = resetSelects(s0, (i + 1)..5)
    /\ last' = Stamp("changeReset", i, FALSE)
    /\ UNCHANGED <<fmVars, mdVars, dtVars, impl, cap, lists, inflight, radios, btnDisabled, timers, page>>

assessYear(v) ==
    /\ sel' = [sel EXCEPT ![5].val = v]
    /\ last' = Stamp("changeYear", 5, FALSE)
    /\ UNCHANGED <<fmVars, mdVars, dtVars, impl, cap, lists, inflight, radios, btnDisabled, timers, page>>

assessChange ==
    \E i \in Levels : \E v \in sel[i].opts \cup {""} :
        /\ page = "live"
        /\ impl = "assessment"
        /\ ~sel[i].dis
        /\ sel[i].content = "options"
        /\ v # sel[i].val
        /\ IF i = 5 THEN assessYear(v) ELSE (assessFetch(i, v) \/ assessReset(i, v))

assessFetchOk ==
    \E r \in BagToSet(inflight), o \in lists :
        LET t == r.target IN
        /\ page = "live"
        /\ impl = "assessment"
        /\ r.params # <<>>
        /\ sel' = resetSelects(enable(setOptions(sel, t, o, r.params), t), (t + 1)..5)
        /\ inflight' = inflight (-) SetToBag({r})
        /\ last' = [Stamp("fetchOk", t - 1, FALSE) EXCEPT !.overNewer = overwritesNewer(sel, r),
                                                          !.fetched = o]
        /\ UNCHANGED <<fmVars, mdVars, dtVars, impl, cap, lists, radios, btnDisabled, timers, page>>

\* the catch block only logs to the console
assessFetchReject ==
    \E r \in BagToSet(inflight) :
        /\ page = "live"
        /\ impl = "assessment"
        /\ r.params # <<>>
        /\ inflight' = inflight (-) SetToBag({r})
        /\ last' = Stamp("fetchReject", r.target - 1, FALSE)
        /\ UNCHANGED <<fmVars, mdVars, dtVars, impl, cap, lists, sel, radios, btnDisabled, timers, page>>

assessFetchNotArray ==
    \E r \in BagToSet(inflight) :
        /\ page = "live"
        /\ impl = "assessment"
        /\ r.params # <<>>
        /\ sel' = setPlaceholder(sel, r.target)
        /\ inflight' = inflight (-) SetToBag({r})
        /\ last' = Stamp("fetchNotArray", r.target - 1, FALSE)
        /\ UNCHANGED <<fmVars, mdVars, dtVars, impl, cap, lists, radios, btnDisabled, timers, page>>

----------------------------------------------------------------------------
(* Radio groups, mileage input, submit (estimator and its variant) *)

\* a radio input's change listener is validateForm
radioChange ==
    \E g \in Groups :
        /\ page = "live"
        /\ impl # "assessment"
        /\ radios' = radios \cup {g}
        /\ btnDisabled' = validateForm(impl, sel, radios')
        /\ last' = Stamp("radioChange", 0, FALSE)
        /\ UNCHANGED <<fmVars, mdVars, dtVars, impl, cap, lists, sel, inflight, timers, page>>

\* userMileageInput's input listener is validateForm
mileageInput ==
    /\ page = "live"
    /\ impl # "assessment"
    /\ btnDisabled' = validateForm(impl, sel, radios)
    /\ last' = Stamp("mileageInput", 0, FALSE)
    /\ UNCHANGED <<fmVars, mdVars, dtVars, impl, cap, lists, sel, inflight, radios, timers, page>>

\* showLoadingState: submitBtn.disabled = true
showLoadingState == TRUE

\* the form's submit listener; the event needs an enabled submit button
submitEvent ==
    /\ page = "live"
    /\ impl # "assessment"
    /\ ~btnDisabled
    /\ IF validateFormBeforeSubmit(impl, sel, radios)
       THEN /\ timers < MaxTimers
            /\ btnDisabled' = showLoadingState
            /\ timers' = timers + 1
            /\ last' = Stamp("submitScheduled", 0, FALSE)
       ELSE /\ last' = [Stamp("submitBlocked", 0, TRUE) EXCEPT !.named = errorField(impl, sel, radios)]
            /\ UNCHANGED <<btnDisabled, timers>>
    /\ UNCHANGED <<fmVars, mdVars, dtVars, impl, cap, lists, sel, inflight, radios, page>>

\* the setTimeout callback of submitForm: form.submit() leaves the page
submitForm ==
    /\ page = "live"
    /\ timers > 0
    /\ timers' = timers - 1
    /\ page' = "submitted"
    /\ last' = Stamp("formSubmit", 0, FALSE)
    /\ UNCHANGED <<fmVars, mdVars, dtVars, impl, cap, lists, sel, inflight, radios, btnDisabled>>

----------------------------------------------------------------------------
(* JavaScript values held in table records: numbers and strings. A string  *)
(* is the sequence of its characters.                                      *)

Num(n) == [t |-> "num", n |-> n, s |-> <<>>]
Str(s) == [t |-> "str", n |-> 0, s |-> s]

Digits == <<"0", "1", "2", "3", "4", "5", "6", "7", "8", "9">>
IsDigit(c) == \E d \in 1..10 : Digits[d] = c
DigitVal(c) == (CHOOSE d \in 1..10 : Digits[d] = c) - 1

\* UTF-16 code units of the characters the model uses
CharCode(c) ==
    CASE IsDigit(c) -> 48 + DigitVal(c)
      [] c = "A" -> 65
      [] c = "B" -> 66
      [] c = "X" -> 88
      [] c = "a" -> 97
      [] c = "b" -> 98
      [] c = "x" -> 120
      [] OTHER -> 63

\* String(n) for a non-negative integer: its decimal digits
RECURSIVE DecimalOf(_)
DecimalOf(n) == IF n < 10 THEN <<Digits[n + 1]>> ELSE Append(DecimalOf(n \div 10), Digits[(n % 10) + 1])

\* String(value)
String(v) == IF v.t = "num" THEN DecimalOf(v.n) ELSE v.s

\* the value of a sequence of decimal digits
RECURSIVE DigitsValue(_)
DigitsValue(s) ==
    IF s = <<>> THEN 0 ELSE 10 * DigitsValue(SubSeq(s, 1, Len(s) - 1)) + DigitVal(s[Len(s)])

AllDigits(s) == \A k \in 1..Len(s) : IsDigit(s[k])

\* isNaN(value): Number(value) is NaN. Number("") is 0; a string with a
\* character that is no digit converts to NaN.
isNaN(v) == v.t = "str" /\ ~AllDigits(v.s)

\* the longest prefix of s made of digits
RECURSIVE DigitPrefix(_)
DigitPrefix(s) ==
    IF s = <<>> \/ ~IsDigit(s[1]) THEN <<>> ELSE <<s[1]>> \o DigitPrefix(Tail(s))

\* parseFloat(value): [nan, n]. parseFloat reads the leading digits of
\* String(value) and is NaN when there are none (parseFloat("") is NaN).
parseFloat(v) ==
    LET p == DigitPrefix(String(v)) IN
    IF p = <<>> THEN [nan |-> TRUE, n |-> 0] ELSE [nan |-> FALSE, n |-> DigitsValue(p)]

\* Number(value) as [nan, n], for the relational operators on mixed operands
ToNumber(v) ==
    IF v.t = "num" THEN [nan |-> FALSE, n |-> v.n]
    ELSE IF AllDigits(v.s) THEN [nan |-> FALSE, n |-> DigitsValue(v.s)]
    ELSE [nan |-> TRUE, n |-> 0]

\* s < u for strings: by code units, a proper prefix first
RECURSIVE StrLess(_, _)
StrLess(s, u) ==
    IF u = <<>> THEN FALSE
    ELSE IF s = <<>> THEN TRUE
    ELSE IF s[1] = u[1] THEN StrLess(Tail(s), Tail(u))
    ELSE CharCode(s[1]) < CharCode(u[1])

NumLess(x, y) == ~x.nan /\ ~y.nan /\ x.n < y.n

\* a < b of JavaScript on two values: strings compare by code units,
\* anything else as numbers, and a comparison with NaN is false
jsLess(a, b) ==
    IF a.t = "str" /\ b.t = "str" THEN StrLess(a.s, b.s)
    ELSE NumLess(ToNumber(a), ToNumber(b))

\* String.prototype.toLowerCase on the model's characters
LowerChar(c) ==
    CASE c = "A" -> "a"
      [] c = "B" -> "b"
      [] c = "X" -> "x"
      [] OTHER -> c

toLowerCase(s) == [k \in 1..Len(s) |-> LowerChar(s[k])]

\* String.prototype.includes
includes(hay, needle) ==
    \E k \in 0..(Len(hay) - Len(needle)) : SubSeq(hay, k + 1, k + Len(needle)) = needle

----------------------------------------------------------------------------
(* The dataTable component *)

\* loadData calls that may be awaiting a response at once
MaxLoads == 2
\* records in one response
MaxRecs == 3
\* the largest page number a caller passes to goToPage
MaxPage == 3

pageSize == 25

Fields == {"a", "b"}
NoFilters == [f \in Fields |-> <<>>]
Slots == 1..MaxLoads
NoLoad == [busy |-> FALSE, by |-> "", page |-> 0, search |-> <<>>, sort |-> "", direction |-> ""]

\* every sequence over S of length at most n
SeqsUpTo(S, n) == UNION {[1..k -> S] : k \in 0..n}

\* every arrangement of the sequence s
Arrangements(s) ==
    LET n == Len(s)
        Bijections == {f \in [1..n -> 1..n] : \A i, j \in 1..n : f[i] = f[j] => i = j}
    IN  {[k \in 1..n |-> s[f[k]]] : f \in Bijections}

\* Math.ceil(n / d) for n >= 0, d > 0
ceilDiv(n, d) == (n + d - 1) \div d

\* calculatePagination
calculatePagination(total) == ceilDiv(total, pageSize)

\* Array.prototype.slice(start, end) for 0 <= start <= end
slice(s, start, end) == SubSeq(s, start + 1, IF end <= Len(s) THEN end ELSE Len(s))

\* the getter starting each page one page too far
paginatedDataShifted(p) ==
    IF serverSide
    THEN filteredData
    ELSE LET start == p * pageSize
             end == start + pageSize
         IN  slice(filteredData, start, end)

\* the getter paginatedData, read while currentPage is p
paginatedData(p) ==
    IF serverSide
    THEN filteredData
    ELSE LET start == (p - 1) * pageSize
             end == start + pageSize
         IN  slice(filteredData, start, end)

\* matchesSearch without lower-casing the field value
matchesSearchCaseSensitive(item, term) ==
    \E f \in Fields : includes(String(item[f]), toLowerCase(term))

\* the item test of the search filter: some field contains the term
matchesSearch(item, term) ==
    \E f \in Fields : includes(toLowerCase(String(item[f])), toLowerCase(term))

\* the item test of the per-key filters: each key with a truthy value is contained
matchesFilters(item, flt) ==
    \A f \in Fields :
        flt[f] # <<>> => includes(toLowerCase(String(item[f])), toLowerCase(flt[f]))

\* applyFilters: the new filteredData
applyFilters(d, term, flt) ==
    LET bySearch == IF term # <<>> THEN SelectSeq(d, LAMBDA item : matchesSearch(item, term)) ELSE d
    IN  SelectSeq(bySearch, LAMBDA item : matchesFilters(item, flt))

\* compare without the numeric coercion
compareRaw(x, y, field, dir) ==
    IF dir = "asc" THEN (IF jsLess(y[field], x[field]) THEN 1 ELSE -1)
                   ELSE (IF jsLess(x[field], y[field]) THEN 1 ELSE -1)

\* the compare function handed to Array.prototype.sort
compare(x, y, field, dir) ==
    LET numeric == ~isNaN(x[field]) /\ ~isNaN(y[field])
        greater == IF numeric THEN NumLess(parseFloat(y[field]), parseFloat(x[field]))
                              ELSE jsLess(y[field], x[field])
        less    == IF numeric THEN NumLess(parseFloat(x[field]), parseFloat(y[field]))
                              ELSE jsLess(x[field], y[field])
    IN  IF dir = "asc" THEN (IF greater THEN 1 ELSE -1)
                       ELSE (IF less THEN 1 ELSE -1)

\* Array.prototype.sort with that function. It never returns 0, so it is no
\* consistent comparator and the order is implementation-defined: the
\* outcomes are the arrangements in which every neighbouring pair is one
\* the function accepts in that order.
sortOutcomes(s, field, dir) ==
    {p \in Arrangements(s) :
        \A k \in 1..(Len(p) - 1) :
            compare(p[k], p[k + 1], field, dir) < 0 \/ compare(p[k + 1], p[k], field, dir) > 0}

\* sortKey with the direction kept when the field changes
sortKeyKeepsDirection(field) ==
    IF sortField = field
    THEN [field |-> sortField, direction |-> IF sortDirection = "asc" THEN "desc" ELSE "asc"]
    ELSE [field |-> field, direction |-> sortDirection]

\* sort(field): the new sortField and sortDirection
sortKey(field) ==
    IF sortField = field
    THEN [field |-> sortField, direction |-> IF sortDirection = "asc" THEN "desc" ELSE "asc"]
    ELSE [field |-> field, direction |-> "asc"]

freeSlot == CHOOSE k \in Slots : ~loads[k].busy /\ \A j \in Slots : ~loads[j].busy => k <= j

\* loadData up to its await: the query is built from the fields as they are now
request(by, pg, sf, sd) ==
    [busy |-> TRUE, by |-> by, page |-> pg, search |-> search,
     sort |-> IF sf = "null" THEN "" ELSE sf, direction |-> sd]

\* what the step did: the method, the loadData call it started or ended, the
\* field or page it was passed; for a response, the records and total it
\* carried and whether its request still matched the page, search and sort
DtStamp(op, k, f) ==
    [op |-> op, slot |-> k, field |-> f, page |-> 0, rows |-> <<>>, total |-> 0, stale |-> FALSE]

\* the request of call k was built from a page, search or sort the table has since left
outdated(k) ==
    \/ loads[k].page # currentPage
    \/ loads[k].search # search
    \/ loads[k].sort # (IF sortField = "null" THEN "" ELSE sortField)
    \/ loads[k].direction # sortDirection

\* the component as constructed, init() having called loadData
TableInit ==
    /\ serverSide \in BOOLEAN
    /\ data = <<>>
    /\ dataIterable = TRUE
    /\ filteredData = <<>>
    /\ loading = TRUE
    /\ error = "null"
    /\ currentPage = 1
    /\ totalPages = 1
    /\ totalRecords = 0
    /\ sortField = "null"
    /\ sortDirection = "asc"
    /\ search = <<>>
    /\ filters = NoFilters
    /\ loads = [k \in Slots |-> IF k = 1 THEN [busy |-> TRUE, by |-> "init", page |-> 1,
                                               search |-> <<>>, sort |-> "", direction |-> "asc"]
                                          ELSE NoLoad]
    /\ afterInit = FALSE
    /\ dtLast = DtStamp("init", 1, "")

\* what a table response may hold
Datasets == {<<>>, <<[a |-> Num(10), b |-> Str(<<"A">>)], [a |-> Num(2), b |-> Str(<<"x">>)]>>}
\* result.total of a server-side response
Totals == {0, 47}
SearchTerms == {<<>>, <<"x">>}

\* loadData(): loading = true, error = null, the request leaves
loadData(by, pg, sf, sd) ==
    /\ \E k \in Slots : ~loads[k].busy
    /\ loading' = TRUE
    /\ error' = "null"
    /\ loads' = [loads EXCEPT ![freeSlot] = request(by, pg, sf, sd)]

\* loadData() called from outside the component (a refresh)
reload ==
    /\ ~afterInit
    /\ loadData("call", currentPage, sortField, sortDirection)
    /\ dtLast' = DtStamp("reload", freeSlot, "")
    /\ UNCHANGED <<fmVars, mdVars, selVars, serverSide, data, dataIterable, filteredData, currentPage, totalPages,
                   totalRecords, sortField, sortDirection, search, filters, afterInit>>

\* loadOk with one response settling every pending call
loadOkMerged(k) ==
    \E rows \in Datasets, total \in Totals :
        /\ ~afterInit
        /\ loads[k].busy
        /\ data' = rows
        /\ dataIterable' = TRUE
        /\ filteredData' = IF serverSide THEN rows ELSE applyFilters(rows, search, filters)
        /\ totalRecords' = IF serverSide THEN total ELSE Len(filteredData')
        /\ totalPages' = calculatePagination(totalRecords')
        /\ loading' = FALSE
        /\ loads' = [j \in Slots |-> NoLoad]
        /\ afterInit' = (loads[k].by = "init")
        /\ dtLast' = [DtStamp("loadOk", k, "") EXCEPT !.rows = rows,
                                                      !.total = IF serverSide THEN total ELSE 0,
                                                      !.stale = outdated(k)]
        /\ UNCHANGED <<fmVars, mdVars, selVars, serverSide, error, currentPage, sortField, sortDirection, search, filters>>

\* the response arrived and parsed: the try block runs to its end, then finally
loadOk(k) ==
    \E rows \in Datasets, total \in Totals :
        /\ ~afterInit
        /\ loads[k].busy
        /\ data' = rows
        /\ dataIterable' = TRUE
        /\ filteredData' = IF serverSide THEN rows ELSE applyFilters(rows, search, filters)
        /\ totalRecords' = IF serverSide THEN total ELSE Len(filteredData')
        /\ totalPages' = calculatePagination(totalRecords')
        /\ loading' = FALSE
        /\ loads' = [loads EXCEPT ![k] = NoLoad]
        /\ afterInit' = (loads[k].by = "init")
        /\ dtLast' = [DtStamp("loadOk", k, "") EXCEPT !.rows = rows,
                                                      !.total = IF serverSide THEN total ELSE 0,
                                                      !.stale = outdated(k)]
        /\ UNCHANGED <<fmVars, mdVars, selVars, serverSide, error, currentPage, sortField, sortDirection, search, filters>>

\* loadFail with the held records dropped in the catch block
loadFailDropsData(k) ==
        /\ ~afterInit
        /\ loads[k].busy
        /\ data' = <<>>
        /\ filteredData' = <<>>
        /\ error' = "Failed to load data"
        /\ loading' = FALSE
        /\ loads' = [loads EXCEPT ![k] = NoLoad]
        /\ afterInit' = (loads[k].by = "init")
        /\ dtLast' = DtStamp("loadFail", k, "")
        /\ UNCHANGED <<fmVars, mdVars, selVars, serverSide, dataIterable, currentPage, totalPages,
                       totalRecords, sortField, sortDirection, search, filters>>

\* loadFail without the finally block
loadFailKeepsLoading(k) ==
        /\ ~afterInit
        /\ loads[k].busy
        /\ error' = "Failed to load data"
        /\ loads' = [loads EXCEPT ![k] = NoLoad]
        /\ afterInit' = (loads[k].by = "init")
        /\ dtLast' = DtStamp("loadFail", k, "")
        /\ UNCHANGED <<fmVars, mdVars, selVars, serverSide, data, dataIterable, filteredData, loading, currentPage,
                       totalPages, totalRecords, sortField, sortDirection, search, filters>>

\* fetch() or response.json() throws: catch sets error, finally clears loading
loadFail(k) ==
        /\ ~afterInit
        /\ loads[k].busy
        /\ error' = "Failed to load data"
        /\ loading' = FALSE
        /\ loads' = [loads EXCEPT ![k] = NoLoad]
        /\ afterInit' = (loads[k].by = "init")
        /\ dtLast' = DtStamp("loadFail", k, "")
        /\ UNCHANGED <<fmVars, mdVars, selVars, serverSide, data, dataIterable, filteredData, currentPage, totalPages,
                       totalRecords, sortField, sortDirection, search, filters>>

\* client-side mode, the response is an object that is no array and has no
\* data array: this.data = result, then the spread in applyFilters throws
loadNotIterable(k) ==
        /\ ~afterInit
        /\ ~serverSide
        /\ loads[k].busy
        /\ data' = <<>>
        /\ dataIterable' = FALSE
        /\ error' = "Failed to load data"
        /\ loading' = FALSE
        /\ loads' = [loads EXCEPT ![k] = NoLoad]
        /\ afterInit' = (loads[k].by = "init")
        /\ dtLast' = DtStamp("loadNotIterable", k, "")
        /\ UNCHANGED <<fmVars, mdVars, selVars, serverSide, filteredData, currentPage, totalPages, totalRecords,
                       sortField, sortDirection, search, filters>>

\* init() after its await: calculatePagination()
initDone ==
    /\ afterInit
    /\ totalPages' = calculatePagination(totalRecords)
    /\ afterInit' = FALSE
    /\ dtLast' = DtStamp("initDone", 0, "")
    /\ UNCHANGED <<fmVars, mdVars, selVars, serverSide, data, dataIterable, filteredData, loading, error, currentPage,
                   totalRecords, sortField, sortDirection, search, filters, loads>>

\* sort reordering the held records in server-side mode as well
sortReordersLocally ==
    \E field \in Fields :
        LET key == sortKey(field) IN
        /\ ~afterInit
        /\ sortField' = key.field
        /\ sortDirection' = key.direction
        /\ filteredData' \in sortOutcomes(filteredData, field, key.direction)
        /\ IF serverSide
           THEN /\ loadData("call", currentPage, key.field, key.direction)
                /\ dtLast' = DtStamp("sort", freeSlot, field)
                /\ data' = filteredData'
           ELSE /\ dtLast' = DtStamp("sort", 0, field)
                /\ UNCHANGED <<data, loading, error, loads>>
        /\ UNCHANGED <<fmVars, mdVars, selVars, serverSide, dataIterable, currentPage, totalPages, totalRecords,
                       search, filters, afterInit>>

\* sort(field)
sort ==
    \E field \in Fields :
        LET key == sortKey(field) IN
        /\ ~afterInit
        /\ sortField' = key.field
        /\ sortDirection' = key.direction
        /\ IF serverSide
           THEN /\ loadData("call", currentPage, key.field, key.direction)
                /\ dtLast' = DtStamp("sort", freeSlot, field)
                /\ UNCHANGED filteredData
           ELSE /\ filteredData' \in sortOutcomes(filteredData, field, key.direction)
                /\ dtLast' = DtStamp("sort", 0, field)
                /\ UNCHANGED <<loading, error, loads>>
        /\ UNCHANGED <<fmVars, mdVars, selVars, serverSide, data, dataIterable, currentPage, totalPages, totalRecords,
                       search, filters, afterInit>>

\* goToPage without the lower bound of the range test
goToNoLowerBound(p, op) ==
    /\ ~afterInit
    /\ dtLast' = [DtStamp(op, 0, "") EXCEPT !.page = p]
    /\ IF p <= totalPages
       THEN /\ currentPage' = p
            /\ IF serverSide
               THEN loadData("call", p, sortField, sortDirection)
               ELSE UNCHANGED <<loading, error, loads>>
       ELSE UNCHANGED <<currentPage, loading, error, loads>>
    /\ UNCHANGED <<fmVars, mdVars, selVars, serverSide, data, dataIterable, filteredData, totalPages, totalRecords,
                   sortField, sortDirection, search, filters, afterInit>>

\* goToPage(p), shared by nextPage and prevPage
goTo(p, op) ==
    /\ ~afterInit
    /\ dtLast' = [DtStamp(op, 0, "") EXCEPT !.page = p]
    /\ IF p >= 1 /\ p <= totalPages
       THEN /\ currentPage' = p
            /\ IF serverSide
               THEN loadData("call", p, sortField, sortDirection)
               ELSE UNCHANGED <<loading, error, loads>>
       ELSE UNCHANGED <<currentPage, loading, error, loads>>
    /\ UNCHANGED <<fmVars, mdVars, selVars, serverSide, data, dataIterable, filteredData, totalPages, totalRecords,
                   sortField, sortDirection, search, filters, afterInit>>

goToPage == \E p \in 0..MaxPage : goTo(p, "goToPage")

nextPage == goTo(currentPage + 1, "nextPage")

prevPage == goTo(currentPage - 1, "prevPage")

\* performSearch(); in client-side mode applyFilters throws when this.data
\* is no array, before anything is assigned
performSearch ==
    /\ ~afterInit
    /\ dtLast' = DtStamp("performSearch", 0, "")
    /\ IF serverSide
       THEN /\ currentPage' = 1
            /\ loadData("call", 1, sortField, sortDirection)
            /\ UNCHANGED <<filteredData, totalRecords, totalPages>>
       ELSE IF dataIterable
       THEN /\ filteredData' = applyFilters(data, search, filters)
            /\ totalRecords' = Len(filteredData')
            /\ currentPage' = 1
            /\ totalPages' = calculatePagination(totalRecords')
            /\ UNCHANGED <<loading, error, loads>>
       ELSE UNCHANGED <<filteredData, totalRecords, currentPage, totalPages, loading, error, loads>>
    /\ UNCHANGED <<fmVars, mdVars, selVars, serverSide, data, dataIterable, sortField, sortDirection, search, filters,
                   afterInit>>

\* the search box is bound to this.search
setSearch(terms) ==
    \E term \in terms :
        /\ ~afterInit
        /\ term # search
        /\ search' = term
        /\ dtLast' = DtStamp("setSearch", 0, "")
        /\ UNCHANGED <<fmVars, mdVars, selVars, serverSide, data, dataIterable, filteredData, loading, error, currentPage,
                       totalPages, totalRecords, sortField, sortDirection, filters, loads, afterInit>>

\* a filter control is bound to this.filters[f]
setFilter(choices) ==
    \E f \in Fields : \E v \in choices[f] :
        /\ ~afterInit
        /\ v # filters[f]
        /\ filters' = [filters EXCEPT ![f] = v]
        /\ dtLast' = DtStamp("setFilter", 0, "")
        /\ UNCHANGED <<fmVars, mdVars, selVars, serverSide, data, dataIterable, filteredData, loading, error, currentPage,
                       totalPages, totalRecords, sortField, sortDirection, search, loads, afterInit>>

\* a client-side table after a successful load of rows, nothing pending
Loaded(rows) ==
    /\ serverSide = FALSE
    /\ data = rows
    /\ dataIterable = TRUE
    /\ filteredData = rows
    /\ loading = FALSE
    /\ error = "null"
    /\ currentPage = 1
    /\ totalPages = calculatePagination(Len(rows))
    /\ totalRecords = Len(rows)
    /\ sortField = "null"
    /\ sortDirection = "asc"
    /\ search = <<>>
    /\ filters = NoFilters
    /\ loads = [k \in Slots |-> NoLoad]
    /\ afterInit = FALSE
    /\ dtLast = DtStamp("initDone", 0, "")

\* field values the sort is tried on: numbers, numeric strings, the empty
\* string and a string that is no number
SortValues == {Num(2), Num(10), Str(<<"1", "0">>), Str(<<"9">>), Str(<<>>), Str(<<"x">>)}
SortRecords == {[a |-> v, b |-> w] : v \in SortValues, w \in {Num(1), Str(<<"1">>)}}

\* records, search terms and filter values the filters are tried on
FilterRecords ==
    {[a |-> v, b |-> w] : v \in {Num(10), Str(<<"a", "B">>)}, w \in {Str(<<"A">>), Str(<<"x">>)}}
FilterTerms == {<<>>, <<"a">>, <<"B">>, <<"1">>}
FilterChoices == [f \in Fields |-> IF f = "a" THEN {<<>>, <<"B">>} ELSE {<<>>, <<"a">>}]

\* tables the pagination is tried on: empty, one record, and a full page or
\* one record more than that for each number of pages; the first pageSize + 1
\* records have "x" in field b
PageSizes == {0, 1} \cup {m * pageSize + d : m \in 1..(MaxPage - 1), d \in {0, 1}}
PageRows(n) ==
    [k \in 1..n |-> [a |-> Num(k), b |-> Str(IF k <= pageSize + 1 THEN <<"x">> ELSE <<"y">>)]]
PageTerms == {<<>>, <<"x">>, <<"1">>}

----------------------------------------------------------------------------
(* The modal component: each modal() call returns an object of its own;    *)
(* open and close also write the class list of the one document.body.      *)

\* modal instances on the page
NumModals == 2
Modals == 1..NumModals
\* title and content strings passed to open
Texts == {"", "t"}

MdStamp(op, m) == [op |-> op, m |-> m]

\* modal(): show false, title and content empty; the body as served
ModalIdle ==
    /\ modals = [m \in Modals |-> [show |-> FALSE, title |-> "", content |-> ""]]
    /\ bodyLocked = FALSE
    /\ mdLast = MdStamp("init", 0)

\* open(title, content)
open(m) ==
    \E title \in Texts, content \in Texts :
        /\ modals' = [modals EXCEPT ![m] = [show |-> TRUE, title |-> title, content |-> content]]
        /\ bodyLocked' = TRUE
        /\ mdLast' = MdStamp("open", m)
        /\ UNCHANGED <<selVars, dtVars, fmVars>>

\* close()
close(m) ==
    /\ modals' = [modals EXCEPT ![m].show = FALSE]
    /\ bodyLocked' = FALSE
    /\ mdLast' = MdStamp("close", m)
    /\ UNCHANGED <<selVars, dtVars, fmVars>>

----------------------------------------------------------------------------
(* The form component: data bound to the inputs, errors, loading; submit()  *)
(* posts data and dispatches form-success or form-error.                    *)

\* submit() calls that may be awaiting their response at once
MaxSubmits == 2

\* this.data: the defaults of the config, or what the user made of them
Drafts == {"default", "edited"}

\* this.errors = {}
NoErrors == {}

\* the errors member of a response: missing, or an object of messages by field
FieldNames == {"name", "email"}
ErrorValues == {<<>>} \cup {<<e>> : e \in SUBSET FieldNames}

\* what response.json() resolves to: null, or an object whose success is
\* true, false or missing
Results ==
    {[kind |-> "null", success |-> FALSE, errors |-> <<>>]} \cup
    {[kind |-> "object", success |-> s, errors |-> e] : s \in BOOLEAN, e \in ErrorValues}

\* no response: fetch() or response.json() rejected, or building the request threw
Threw == [kind |-> "threw", success |-> FALSE, errors |-> <<>>]

\* result.errors || {}
orEmpty(e) == IF e = <<>> THEN NoErrors ELSE e[1]

\* the method that ran, the response it was given and the events it dispatched
FmStamp(op, result, events) == [op |-> op, result |-> result, events |-> events]

\* form(config) after init()
WidgetIdle ==
    /\ formData = "default"
    /\ formErrors = NoErrors
    /\ formLoading = FALSE
    /\ submits = 0
    /\ fmLast = FmStamp("init", Threw, <<>>)

\* an input bound to data with x-model
setField ==
    \E d \in Drafts :
        /\ d # formData
        /\ formData' = d
        /\ fmLast' = FmStamp("setField", Threw, <<>>)
        /\ UNCHANGED <<selVars, dtVars, mdVars, formErrors, formLoading, submits>>

\* submit() up to its await fetch
submit ==
    /\ submits < MaxSubmits
    /\ formLoading' = TRUE
    /\ formErrors' = NoErrors
    /\ submits' = submits + 1
    /\ fmLast' = FmStamp("submit", Threw, <<>>)
    /\ UNCHANGED <<selVars, dtVars, mdVars, formData>>

\* submit() when building the request throws (getCsrfToken, JSON.stringify):
\* the catch and the finally run in the same turn
submitThrows ==
    /\ formLoading' = FALSE
    /\ formErrors' = NoErrors
    /\ fmLast' = FmStamp("submitThrows", Threw, <<"form-error">>)
    /\ UNCHANGED <<selVars, dtVars, mdVars, formData, submits>>

\* the events submit() dispatches for the result r, and the errors it leaves.
\* Reading result.success of null throws into the catch.
dispatched(r) ==
    IF r.kind = "object" /\ r.success THEN <<"form-success">> ELSE <<"form-error">>

\* errors taken from a successful response as well
errorsFromAnyResponse(r, errs) ==
    IF r.kind = "object" THEN orEmpty(r.errors) ELSE errs

errorsAfter(r, errs) ==
    IF r.kind = "object" /\ ~r.success THEN orEmpty(r.errors) ELSE errs

\* submit() after its awaits: try, catch and finally
submitSettles ==
    \E r \in Results \cup {Threw} :
        /\ submits > 0
        /\ submits' = submits - 1
        /\ formErrors' = errorsAfter(r, formErrors)
        /\ formLoading' = FALSE
        /\ fmLast' = FmStamp("submitSettles", r, dispatched(r))
        /\ UNCHANGED <<selVars, dtVars, mdVars, formData>>

\* reset()
reset ==
    /\ formData' = "default"
    /\ formErrors' = NoErrors
    /\ fmLast' = FmStamp("reset", Threw, <<>>)
    /\ UNCHANGED <<selVars, dtVars, mdVars, formLoading, submits>>

----------------------------------------------------------------------------

\* the page without a table / without selects
TableIdle == Loaded(<<>>)
SelIdle == SelInit({"estimator"}, 0, OptionSets)

TableNext ==
    \/ reload
    \/ \E k \in Slots : loadOk(k)
    \/ \E k \in Slots : loadFail(k)
    \/ \E k \in Slots : loadNotIterable(k)
    \/ initDone
    \/ sort
    \/ goToPage
    \/ nextPage
    \/ prevPage
    \/ performSearch
    \/ setSearch(SearchTerms)

SortNext == sort

FilterNext ==
    \/ setSearch(FilterTerms)
    \/ setFilter(FilterChoices)
    \/ performSearch

\* paging and searching, and in server-side mode the loads they start
PageNext ==
    \/ goToPage
    \/ nextPage
    \/ prevPage
    \/ performSearch
    \/ setSearch(PageTerms)
    \/ \E k \in Slots : loadOk(k)
    \/ \E k \in Slots : loadFail(k)
    \/ initDone

\* the cascading selects of the three page scripts
CascadeNext ==
    \/ loadTopOk
    \/ loadTopFail
    \/ userChange
    \/ fetchOk
    \/ fetchReject
    \/ fetchNotArray
    \/ assessChange
    \/ assessFetchOk
    \/ assessFetchReject
    \/ assessFetchNotArray

\* the estimator page (and its variant): selects, radio groups, submit
FormNext ==
    \/ loadTopOk
    \/ loadTopFail
    \/ userChange
    \/ fetchOk
    \/ fetchReject
    \/ fetchNotArray
    \/ radioChange
    \/ mileageInput
    \/ submitEvent
    \/ submitForm

\* the selects of the estimator page (and its variant) alone
RetryNext ==
    \/ loadTopOk
    \/ loadTopFail
    \/ userChange
    \/ fetchOk
    \/ fetchReject
    \/ fetchNotArray

\* the modals of a page
ModalNext ==
    \/ \E m \in Modals : open(m)
    \/ \E m \in Modals : close(m)

\* the form component
WidgetNext ==
    \/ setField
    \/ submit
    \/ submitThrows
    \/ submitSettles
    \/ reset

vars == <<selVars, dtVars, mdVars, fmVars>>

\* the cascading selector controller, all three scripts
Init == SelInit(Impls, MaxInFlight, OptionSets) /\ TableIdle /\ ModalIdle /\ WidgetIdle

Spec == Init /\ [][CascadeNext]_vars

\* the estimator's form
FormInit == SelInit({"estimator", "variant"}, MaxFormInFlight, OptionSets) /\ TableIdle /\ ModalIdle /\ WidgetIdle

FormSpec == FormInit /\ [][FormNext]_vars

\* the estimator's selects, over endpoints that may answer with a single option
RetryInit == SelInit({"estimator", "variant"}, MaxFormInFlight, ShortLists) /\ TableIdle /\ ModalIdle /\ WidgetIdle

RetrySpec == RetryInit /\ [][RetryNext]_vars

\* the dataTable component in both modes
TableSpecInit == TableInit /\ SelIdle /\ ModalIdle /\ WidgetIdle

TableSpec == TableSpecInit /\ [][TableNext]_vars

\* the same, every fetch settling and every continuation being run
settle(k) == loadOk(k) \/ loadFail(k) \/ loadNotIterable(k)

\* the operations that start or end a loadData call, the search box left empty
LiveNext ==
    \/ reload
    \/ \E k \in Slots : loadOk(k)
    \/ \E k \in Slots : loadFail(k)
    \/ \E k \in Slots : loadNotIterable(k)
    \/ initDone
    \/ sort
    \/ goToPage
    \/ nextPage
    \/ prevPage
    \/ performSearch

TableLive ==
    /\ TableSpecInit
    /\ [][LiveNext]_vars
    /\ \A k \in Slots : WF_vars(settle(k))
    /\ WF_vars(initDone)

\* sort on a loaded client-side table
SortInit == (\E rows \in SeqsUpTo(SortRecords, MaxRecs) : Loaded(rows)) /\ SelIdle /\ ModalIdle /\ WidgetIdle

SortSpec == SortInit /\ [][SortNext]_vars

\* search and filters on a loaded client-side table
FilterInit == (\E rows \in SeqsUpTo(FilterRecords, MaxRecs) : Loaded(rows)) /\ SelIdle /\ ModalIdle /\ WidgetIdle

FilterSpec == FilterInit /\ [][FilterNext]_vars

\* paging: a loaded client-side table of one or several pages, or a
\* server-side table from its construction
PageInit ==
    /\ \/ \E n \in PageSizes : Loaded(PageRows(n))
       \/ TableInit /\ serverSide
    /\ SelIdle
    /\ ModalIdle
    /\ WidgetIdle

PageSpec == PageInit /\ [][PageNext]_vars

\* the form component alone
WidgetInit == WidgetIdle /\ SelIdle /\ TableIdle /\ ModalIdle

WidgetSpec == WidgetInit /\ [][WidgetNext]_vars

\* the modal components alone
ModalInit == ModalIdle /\ SelIdle /\ TableIdle /\ WidgetIdle

ModalSpec == ModalInit /\ [][ModalNext]_vars

----------------------------------------------------------------------------
(* Properties *)

Placeholder(i) == sel[i].dis /\ sel[i].content = "placeholder"

\* every select of the page holds a value and every required group is checked
FormComplete ==
    /\ \A i \in LevelsOf(impl) : sel[i].val # ""
    /\ radios = Groups

\* the most recent step was the end of a change listener at level last.level
HandlerFinished == last.op \in {"changeReset", "fetchOk", "fetchReject", "fetchNotArray"}
FetchFailed == last.op \in {"fetchReject", "fetchNotArray"}

\* C1: once the change listener of level N has finished, every level below N
\* is disabled and shows only its placeholder. The level N+1 that a successful
\* fetch has just populated is not held against the claim here: what is left
\* is the reset the listener owes the lower levels whatever its outcome.
C1_LowerLevelsReset ==
    HandlerFinished =>
        \A i \in (last.level + 1)..5 :
            (last.op = "fetchOk" /\ i = last.level + 1) \/ Placeholder(i)

\* C2: in every reachable state a level is enabled only if every level above
\* it holds a non-empty value.
C2_EnabledOnlyUnderValues ==
    \A i \in LevelsOf(impl) :
        (i > Top(impl) /\ ~sel[i].dis) => \A j \in Top(impl)..(i - 1) : sel[j].val # ""

\* C3: on the estimator page the submit button is enabled iff the form is
\* complete. The button's loading state after a scheduled submit is not held
\* against the claim here: no submit is pending in the states compared.
C3_ButtonTracksForm ==
    (page = "live" /\ timers = 0) => (~btnDisabled <=> FormComplete)

\* C4: form.submit() fires only in a state in which the form is complete.
C4_SubmitOnlyWhenComplete == page = "submitted" => FormComplete

\* C5: when the option fetch of a change at level N has failed, level N+1 is
\* disabled, an error notification has been raised and no fetch was re-issued.
C5_FailureHandled ==
    FetchFailed =>
        /\ sel[last.level + 1].dis
        /\ last.notified
        /\ BagCardinality(inflight) < cap

HeldSet == <<data, dataIterable, filteredData, totalRecords, totalPages>>
LoadStarts == \E k \in Slots : ~loads[k].busy /\ loads'[k].busy
LoadFails == dtLast'.op = "loadFail" /\ \E k \in Slots : loads[k].busy /\ ~loads'[k].busy

\* C6: a loadData call whose fetch or parse throws sets the error flag and
\* leaves data, filteredData, totalRecords and totalPages as they were: both
\* of its steps, the call and the catch, leave them unchanged.
C6_FailedLoadKeepsData ==
    [][/\ LoadStarts => UNCHANGED HeldSet
       /\ LoadFails => (error' # "null" /\ UNCHANGED HeldSet)]_vars

C6_Witness ==
    /\ dtLast.op = "loadFail"
    /\ error # "null"
    /\ Len(data) = 2
    /\ totalPages = 2

Settled(k) ==
    /\ dtLast.op \in {"loadOk", "loadFail", "loadNotIterable"}
    /\ dtLast.slot = k
    /\ ~loading

\* C7: every loadData call that was started eventually completes, and the
\* loading flag is false when it does.
C7_LoadCompletes == \A k \in Slots : loads[k].busy ~> Settled(k)

C7_Witness ==
    /\ Settled(2)
    /\ dtLast.op = "loadFail"

flip(d) == IF d = "asc" THEN "desc" ELSE "asc"

\* C8: sort(field) on the current sortField flips the direction and keeps the
\* field; on another field it sets sortField to it and the direction to asc.
C8_SortToggles ==
    [][dtLast'.op = "sort" =>
          /\ sortField' = dtLast'.field
          /\ (sortField = dtLast'.field => sortDirection' = flip(sortDirection))
          /\ (sortField # dtLast'.field => sortDirection' = "asc")]_vars

C8_Witness ==
    /\ dtLast.op = "sort"
    /\ dtLast.field = "b"
    /\ sortField = "b"
    /\ sortDirection = "desc"

\* a number, or a non-empty string of decimal digits
Numeric(v) == v.t = "num" \/ (v.s # <<>> /\ AllDigits(v.s))
NumericValue(v) == IF v.t = "num" THEN v.n ELSE DigitsValue(v.s)
AllNumeric(s, f) == \A k \in 1..Len(s) : Numeric(s[k][f])

SamePopulation(s, u) ==
    /\ Len(s) = Len(u)
    /\ \A k \in 1..Len(s) :
          Cardinality({j \in 1..Len(s) : s[j] = s[k]}) = Cardinality({j \in 1..Len(u) : u[j] = s[k]})

InOrder(s, f, d) ==
    \A k \in 1..(Len(s) - 1) :
        IF d = "asc" THEN NumericValue(s[k][f]) <= NumericValue(s[k + 1][f])
                     ELSE NumericValue(s[k][f]) >= NumericValue(s[k + 1][f])

\* C9: client-side, after sort(field) on records whose values of the field
\* are all numeric, filteredData is an arrangement of its previous content in
\* non-decreasing numeric order (ascending) or non-increasing (descending).
C9_NumericSort ==
    [][(dtLast'.op = "sort" /\ AllNumeric(filteredData, dtLast'.field)) =>
          /\ SamePopulation(filteredData', filteredData)
          /\ InOrder(filteredData', dtLast'.field, sortDirection')]_vars

C9_Witness ==
    /\ dtLast.op = "sort"
    /\ dtLast.field = "a"
    /\ sortDirection = "asc"
    /\ Len(filteredData) = 3
    /\ filteredData[1].a = Str(<<"9">>)
    /\ {filteredData[2].a, filteredData[3].a} = {Num(10), Str(<<"1", "0">>)}
    /\ data[1].a = Str(<<"1", "0">>)

SameLetter(c, d) ==
    \/ c = d
    \/ {c, d} \in {{"a", "A"}, {"b", "B"}, {"x", "X"}}

ContainsIgnoringCase(hay, needle) ==
    \E k \in 0..(Len(hay) - Len(needle)) :
        \A j \in 1..Len(needle) : SameLetter(hay[k + j], needle[j])

Kept(item) ==
    /\ search = <<>> \/ \E f \in Fields : ContainsIgnoringCase(String(item[f]), search)
    /\ \A f \in Fields : filters[f] # <<>> => ContainsIgnoringCase(String(item[f]), filters[f])

KeptAt == {i \in 1..Len(data) : Kept(data[i])}
NthKept(k) == CHOOSE i \in KeptAt : Cardinality({j \in KeptAt : j <= i}) = k

\* C10: after applyFilters, filteredData is exactly the records of data, in
\* data's order, that contain the search term in some field and every
\* non-empty filter value in its field, case ignored; totalRecords is its
\* length.
C10_FilteredExactly ==
    dtLast.op = "performSearch" =>
        /\ Len(filteredData) = Cardinality(KeptAt)
        /\ \A k \in 1..Len(filteredData) : filteredData[k] = data[NthKept(k)]
        /\ totalRecords = Len(filteredData)

C10_Witness ==
    /\ dtLast.op = "performSearch"
    /\ search = <<"a">>
    /\ filters["a"] = <<"B">>
    /\ Len(data) = 3
    /\ Len(filteredData) = 1
    /\ filteredData[1] = data[2]

\* a point after a successful loadData, a performSearch or init (in server-side
\* mode performSearch ends with its loadData)
PagesSettled ==
    \/ dtLast.op \in {"loadOk", "initDone"}
    \/ dtLast.op = "performSearch" /\ ~serverSide

\* C11: after every successful loadData, every performSearch and init,
\* totalPages is the ceiling of totalRecords / pageSize (the least number of
\* pages of pageSize records that hold totalRecords records), totalRecords
\* being the filtered record count in client-side mode and the total the
\* response reported in server-side mode.
C11_PagesFromTotal ==
    PagesSettled =>
        /\ totalPages * pageSize >= totalRecords
        /\ (totalPages - 1) * pageSize < totalRecords
        /\ ~serverSide => totalRecords = Len(filteredData)
        /\ (serverSide /\ dtLast.op = "loadOk") => totalRecords = dtLast.total

\* the step starts the loadData call of slot k
Issued(k) == ~loads[k].busy /\ loads'[k].busy

\* the step starts exactly one loadData call, for page pg, and touches no other
OneReload(pg) ==
    \E k \in Slots :
        /\ Issued(k)
        /\ loads'[k].page = pg
        /\ \A j \in Slots \ {k} : loads'[j] = loads[j]

\* C12: goToPage(p), nextPage and prevPage with a target outside
\* [1, totalPages] change nothing and issue no fetch; with a target inside it
\* currentPage becomes the target and, in server-side mode only, exactly one
\* reload is issued.
C12_Navigation ==
    [][dtLast'.op \in {"goToPage", "nextPage", "prevPage"} =>
          LET p == dtLast'.page IN
          /\ dtLast'.op = "nextPage" => p = currentPage + 1
          /\ dtLast'.op = "prevPage" => p = currentPage - 1
          /\ (p < 1 \/ p > totalPages) =>
                UNCHANGED <<currentPage, data, dataIterable, filteredData, loading, error, loads,
                            totalRecords, totalPages>>
          /\ (p >= 1 /\ p <= totalPages) =>
                /\ currentPage' = p
                /\ UNCHANGED <<data, dataIterable, filteredData>>
                /\ IF serverSide THEN OneReload(p) ELSE UNCHANGED <<loads, loading, error>>]_vars

C12_Witness ==
    /\ dtLast.op = "goToPage"
    /\ dtLast.page = 3
    /\ totalRecords = 47
    /\ totalPages = 2
    /\ currentPage = 2

\* C13: the held source set data changes only when a successful loadData
\* replaces it.
C13_OnlySuccessfulLoadReplaces ==
    [][(data' # data \/ dataIterable' # dataIterable) => dtLast'.op = "loadOk"]_vars

\* C14: loadData calls in flight together are neither cancelled nor merged: a
\* pending call ends only by its own response, which ends no other call, and
\* a response that arrives is applied whatever else is pending and whether or
\* not its request still matches the page, search and sort; so the held data
\* and totalRecords are those of the response that arrived last.
C14_LastResponseWins ==
    [][\A k \in Slots :
          loads[k].busy =>
              \/ loads'[k] = loads[k]
              \/ /\ dtLast'.op \in {"loadOk", "loadFail", "loadNotIterable"}
                 /\ dtLast'.slot = k
                 /\ ~loads'[k].busy
                 /\ \A j \in Slots \ {k} : loads'[j] = loads[j]
                 /\ dtLast'.op = "loadOk" =>
                        /\ data' = dtLast'.rows
                        /\ serverSide => totalRecords' = dtLast'.total]_vars

C14_Witness ==
    /\ serverSide
    /\ dtLast.op = "loadOk"
    /\ dtLast.stale
    /\ \A k \in Slots : ~loads[k].busy
    /\ error = "null"
    /\ currentPage = 2
    /\ search = <<>>
    /\ sortField = "null"
    /\ data = dtLast.rows
    /\ Len(data) = 2
    /\ totalRecords = dtLast.total

\* C15: no option fetch of the cascading selects is ever aborted: a pending
\* fetch leaves only when its own response is handled. (The interleaving the
\* claim names, the response for the first of two changes applied after the
\* response for the second, is the witness.)
C15_NeverAborted ==
    [][\A f \in BagToSet(inflight) :
          CopiesIn(f, inflight') < CopiesIn(f, inflight) =>
              /\ last'.op \in {"loadTopOk", "loadTopFail", "fetchOk", "fetchReject", "fetchNotArray"}
              /\ inflight' = inflight (-) SetToBag({f})
              /\ f.params # <<>> => last'.level = f.target - 1]_vars

C15_Witness ==
    /\ impl = "estimator"
    /\ last.op = "fetchOk"
    /\ last.overNewer
    /\ BagCardinality(inflight) = 0
    /\ ~sel[last.level + 1].dis
    /\ sel[last.level + 1].content = "options"
    /\ sel[last.level].val # ""
    /\ sel[last.level + 1].src # sel[last.level].val

\* C16: every failed fetch of the selects (the top-level load and each option
\* fetch) has been surfaced to the user by a dialog when its handler ends.
C16_FailuresShown ==
    last.op \in {"loadTopFail", "fetchReject", "fetchNotArray"} => last.notified

\* C17: an operation of one modal instance leaves every other instance's
\* state unchanged, and the body's scroll-lock class, which every open and
\* close writes, is written by one instance only.
C17_NoSharedState ==
    [][/\ \A m \in Modals : mdLast'.m # m => modals'[m] = modals[m]
       /\ (mdLast.op \in {"open", "close"} /\ mdLast'.op \in {"open", "close"}) =>
              mdLast'.m = mdLast.m]_vars

\* the first missing field in checking order: the first empty select,
\* otherwise the first required radio group without a checked input
FirstMissing ==
    IF \E i \in LevelsOf(impl) : sel[i].val = ""
    THEN [kind |-> "select",
          id |-> CHOOSE i \in LevelsOf(impl) :
                    sel[i].val = "" /\ \A j \in LevelsOf(impl) : sel[j].val = "" => i <= j]
    ELSE IF Groups \ radios # {}
    THEN [kind |-> "group", id |-> CHOOSE g \in Groups \ radios : \A h \in Groups \ radios : g <= h]
    ELSE NoField

\* C18: a submit attempt on an incomplete form schedules no submit, leaves
\* the button out of the loading state, and shows a message that names the
\* first missing field.
C18_BlockedNamesFirstMissing ==
    [][last'.op = "submitBlocked" =>
          /\ timers' = timers
          /\ btnDisabled' = btnDisabled
          /\ last'.notified
          /\ last'.named = FirstMissing]_vars

\* C19: in server-side mode sort(field) sets sortField and sortDirection and
\* starts exactly one loadData call carrying them; it does not reorder the
\* held records, whose order changes only when a response is applied.
C19_ServerSortDelegates ==
    [][serverSide =>
          /\ dtLast'.op = "sort" =>
                /\ sortField' = dtLast'.field
                /\ \E k \in Slots :
                      /\ Issued(k)
                      /\ loads'[k].sort = sortField'
                      /\ loads'[k].direction = sortDirection'
                      /\ \A j \in Slots \ {k} : loads'[j] = loads[j]
                /\ UNCHANGED <<data, filteredData>>
          /\ (data' # data \/ filteredData' # filteredData) => dtLast'.op = "loadOk"]_vars

C19_Witness ==
    /\ serverSide
    /\ dtLast.op = "sort"
    /\ dtLast.field = "a"
    /\ sortField = "a"
    /\ sortDirection = "asc"
    /\ Len(data) = 2
    /\ data[1].a = Num(10)
    /\ filteredData = data
    /\ loads[dtLast.slot].busy
    /\ loads[dtLast.slot].sort = "a"

\* the values the listener of level i reads: the category for the category
\* select, otherwise the values from brand down to level i
ValuesRead(s, i) ==
    IF i = 1 THEN <<s[1].val>> ELSE [k \in 1..(i - 1) |-> s[k + 1].val]

CanChange(i) == ~sel[i].dis /\ \E v \in sel[i].opts : v # sel[i].val

\* C21: after a fetch failure the select whose change issued the failed fetch
\* is enabled and its action can be taken again, a change event being the
\* only thing that issues the fetch.
C21_RetryAfterFailure == FetchFailed => CanChange(last.level)

\* C22: while a fetch that a change listener issued for a level's options is
\* awaiting its response, that level is disabled and lists no option to pick.
C22_LoadingWhileInFlight ==
    \A f \in BagToSet(inflight) :
        f.params # <<>> => sel[f.target].dis /\ sel[f.target].opts = {}

\* C23: the loading flag is true whenever a loadData call awaits its response.
C23_LoadingWhileBusy == (\E k \in Slots : loads[k].busy) => loading

\* no loadData call is awaiting its response and init() has finished
TableAtRest == ~afterInit /\ \A k \in Slots : ~loads[k].busy

Max(m, n) == IF m >= n THEN m ELSE n

\* C24: once the operations on the table have completed, currentPage lies
\* between 1 and max(1, totalPages).
C24_PageWithinRange == TableAtRest => currentPage \in 1..Max(1, totalPages)

\* C25: in client-side mode, whenever sortField is set and the values of that
\* field are numbers, filteredData is ordered by it in sortDirection.
C25_OrderKept ==
    (~serverSide /\ sortField # "null" /\ AllNumeric(filteredData, sortField))
        => InOrder(filteredData, sortField, sortDirection)

\* C26: at most one submission is scheduled, and while it is scheduled and
\* the page has not been left the submit button is disabled.
C26_OneSubmission ==
    /\ timers <= 1
    /\ (timers > 0 /\ page = "live") => btnDisabled

\* C27: no level shows the loading option with no request for its options in
\* flight.
C27_LoadingHasRequest ==
    \A i \in Levels :
        sel[i].content = "loading" => \E f \in BagToSet(inflight) : f.target = i

\* the pages 1..n one after the other
RECURSIVE Pages(_)
Pages(n) == IF n = 0 THEN <<>> ELSE Pages(n - 1) \o paginatedData(n)

\* C28: in client-side mode every page holds at most pageSize records and
\* the pages 1..totalPages, one after the other, are exactly filteredData; in
\* server-side mode paginatedData is filteredData whatever currentPage is.
C28_PagesPartition ==
    IF serverSide
    THEN \A p \in 0..(MaxPage + 1) : paginatedData(p) = filteredData
    ELSE /\ \A p \in 1..totalPages : Len(paginatedData(p)) <= pageSize
         /\ Pages(totalPages) = filteredData

\* a searched client-side table of two pages, turned to its second page,
\* which holds the one record the first page has no room for
C28_Witness ==
    /\ ~serverSide
    /\ search # <<>>
    /\ Len(filteredData) < Len(data)
    /\ totalPages = 2
    /\ currentPage = 2
    /\ dtLast.op = "nextPage"
    /\ Len(paginatedData(currentPage)) = 1
    /\ Len(paginatedData(1)) = pageSize

\* C29: a submit() call empties errors and leaves data alone when it starts;
\* when it ends, loading is false, data is untouched, exactly one event has
\* been dispatched (form-success for a response whose success is true,
\* form-error for any other response and for a thrown fetch or parse error)
\* and errors has been written only for a response without success, to the
\* errors of that response.
C29_SubmitOutcome ==
    [][/\ submits' = submits + 1 =>
            /\ formErrors' = NoErrors
            /\ formData' = formData
            /\ fmLast'.events = <<>>
       /\ submits' = submits - 1 =>
            LET r == fmLast'.result
                succeeded == r.kind = "object" /\ r.success
                refused == r.kind = "object" /\ ~r.success
            IN
            /\ ~formLoading'
            /\ formData' = formData
            /\ fmLast'.events = IF succeeded THEN <<"form-success">> ELSE <<"form-error">>
            /\ formErrors' = IF refused
                             THEN (IF r.errors = <<>> THEN {} ELSE r.errors[1])
                             ELSE formErrors
       /\ fmLast'.op = "submitThrows" =>
            /\ ~formLoading'
            /\ formData' = formData
            /\ formErrors' = {}
            /\ fmLast'.events = <<"form-error">>
      ]_vars

\* a submit() of edited data has ended on a response without success that
\* carried a message for one field
C29_Witness ==
    /\ fmLast.op = "submitSettles"
    /\ fmLast.result.kind = "object"
    /\ ~fmLast.result.success
    /\ fmLast.events = <<"form-error">>
    /\ formErrors = {"name"}
    /\ formData = "edited"
    /\ ~formLoading
    /\ submits = 0

====
